---------------------------- MODULE Spec2Model ----------------------------
(***************************************************************************)
(* The contacts REST service: the /auth endpoints (register, login,        *)
(* confirmed_email, request_email), the background send_email task, the    *)
(* token functions of services/auth.py, the get_current_user dependency    *)
(* behind GET /users/me, the /contacts endpoints and PATCH /users/avatar.  *)
(*                                                                         *)
(* Time is counted in clock ticks.  A handler is one atomic action in      *)
(* Spec; SpecRace runs register_user one await point at a time for two     *)
(* concurrent requests; SpecToken drives the token functions directly on   *)
(* the store of the test fixtures; SpecScript follows one client from      *)
(* registration to its first authenticated request; SpecRegister,          *)
(* SpecConfirm, SpecContacts and SpecAvatar each run one group of          *)
(* endpoints on a small store.                                             *)
(***************************************************************************)
EXTENDS Integers, Sequences, FiniteSets, TLC

VARIABLES users, tasks, issued, now, cache, last, regs, script, contacts, hosted

vars == <<users, tasks, issued, now, cache, last, regs, script, contacts, hosted>>

-----------------------------------------------------------------------------
(* Bounds of the model *)

MaxTime == 2
MaxIssued == 2
MaxTasks == 1
MaxUsers == 3
MaxContacts == 2

(* Input values *)

Usernames == {"deadpool", "wade@example.com"}
Emails == {"deadpool@example.com", "wade@example.com"}
Passwords == {"12345678", "hunter2"}
RegPasswords == {"12345678"}
Salts == {"salt1"}
Procs == {"r1", "r2"}

-----------------------------------------------------------------------------
(* Credential hasher: bcrypt through passlib.  The digest is a one-way     *)
(* function of the salt and of the secret bcrypt works on, which is the    *)
(* password up to its 72nd byte; verify recomputes it with the stored      *)
(* salt.                                                                   *)

BCRYPT_MAX_BYTES == 72

bcrypt_secret(password) ==
    IF Len(password) > BCRYPT_MAX_BYTES
    THEN SubSeq(password, 1, BCRYPT_MAX_BYTES)
    ELSE password

get_password_hash(password, salt) ==
    [scheme |-> "bcrypt", salt |-> salt, digest |-> <<salt, bcrypt_secret(password)>>]

verify_password(plain_password, hashed_password) ==
    hashed_password.digest = <<hashed_password.salt, bcrypt_secret(plain_password)>>

(* The two behaviours of the bcrypt backend for a password of more than    *)
(* 72 bytes: it works on the first 72, or (strict) it raises ValueError.   *)
Raises(exc) == [ok |-> FALSE, error |-> exc]
Returns(value) == [ok |-> TRUE, value |-> value]

hash_outcome(password, salt, strict) ==
    IF strict /\ Len(password) > BCRYPT_MAX_BYTES
    THEN Raises("ValueError")
    ELSE Returns(get_password_hash(password, salt))

verify_outcome(plain_password, hashed_password, strict) ==
    IF strict /\ Len(plain_password) > BCRYPT_MAX_BYTES
    THEN Raises("ValueError")
    ELSE Returns(verify_password(plain_password, hashed_password))

-----------------------------------------------------------------------------
(* Tokens.  A JWT is its claims and the key that signed it.  sub is a      *)
(* string, NoSub when the claim is absent, NullSub when it is JSON null;   *)
(* iat is NoIat when absent.                                               *)

NoSub == "<absent>"
NullSub == "<null>"
NoIat == -1
NoExp == -1

JWT_EXPIRATION_SECONDS == 1
EMAIL_TOKEN_DAYS == 7
TicksPerDay == 1

Token(sub, iat, exp, sig) == [sub |-> sub, iat |-> iat, exp |-> exp, sig |-> sig]

MalformedToken == Token(NoSub, NoIat, NoExp, "malformed")

(* expires_delta is NoDelta when the argument is omitted *)
NoDelta == -1

(* create_access_token taking expires_delta for minutes *)
create_access_token_minutes(sub, expires_delta, t) ==
    LET truthy == expires_delta # NoDelta /\ expires_delta # 0
        expire == IF truthy THEN t + 60 * expires_delta
                            ELSE t + 60 * JWT_EXPIRATION_SECONDS
    IN  Token(sub, NoIat, expire, "secret")

create_access_token(sub, expires_delta, t) ==
    LET truthy == expires_delta # NoDelta /\ expires_delta # 0
        expire == IF truthy THEN t + expires_delta
                            ELSE t + JWT_EXPIRATION_SECONDS
    IN  Token(sub, NoIat, expire, "secret")

create_email_token(sub, t) ==
    Token(sub, t, t + EMAIL_TOKEN_DAYS * TicksPerDay, "secret")

(* jwt.decode: "ok" with the claims, or the JWTError raised *)
jwt_decode(token, t) ==
    IF token.sig = "malformed" THEN [ok |-> FALSE, error |-> "JWTError"]
    ELSE IF token.sig # "secret" THEN [ok |-> FALSE, error |-> "JWTError"]
    ELSE IF token.exp # NoExp /\ token.exp < t
         THEN [ok |-> FALSE, error |-> "ExpiredSignatureError"]
    ELSE IF token.sub = NullSub THEN [ok |-> FALSE, error |-> "JWTClaimsError"]
    ELSE [ok |-> TRUE, error |-> "none"]

-----------------------------------------------------------------------------
(* Identity store: the users table, one row per position; id = position.   *)

NoAvatar == <<"none", "">>

Row(id, username, email, hashed, avatar, confirmed, role) ==
    [id |-> id, username |-> username, email |-> email,
     hashed_password |-> hashed, avatar |-> avatar,
     confirmed |-> confirmed, role |-> role]

Ids(store) == 1..Len(store)

FindByUsername(store, username) == {i \in Ids(store) : store[i].username = username}

FindByEmail(store, email) == {i \in Ids(store) : store[i].email = email}

(* scalar_one_or_none of a SELECT ... filter_by(...) *)
One(S) == CHOOSE i \in S : TRUE

(* A users table without unique constraints *)
UniqueViolation_none(store, row) == FALSE

(* The unique constraints of the users table, enforced at commit *)
UniqueViolation(store, row) ==
    \/ FindByUsername(store, row.username) # {}
    \/ FindByEmail(store, row.email) # {}

Gravatar(email) == <<"gravatar", email>>

-----------------------------------------------------------------------------
(* Responses *)

NoBody == [kind |-> "none"]
UserBody(row) == [kind |-> "user", user |-> row]
TokenBody(token) == [kind |-> "token", access_token |-> token, token_type |-> "bearer"]
MessageBody(m) == [kind |-> "message", message |-> m]

Response(status, detail, bearer, body) ==
    [status |-> status, detail |-> detail, www_authenticate |-> bearer, body |-> body]

MsgEmailExists == "user with this email already exists"
MsgUsernameExists == "user with this username already exists"
MsgBadLogin == "wrong login or password"
MsgNotConfirmed == "email address not confirmed"
MsgAlreadyConfirmed == "your email is already confirmed"
MsgConfirmed == "email confirmed"
MsgCheckEmail == "check your email for confirmation"
MsgNoSuchEmail == "message: no user with this email"
MsgBadEmailToken == "wrong token for email verification"

credentials_exception == Response(401, "Could not validate credentials", TRUE, NoBody)

NoResponse == Response(0, "", FALSE, NoBody)

(* An exception no handler catches: the framework answers 500 *)
Unhandled(exc) == Response(500, exc, FALSE, NoBody)

(* What the last finished request was and what it did: its response,       *)
(* whether it committed a write to the store, how many store lookups it    *)
(* made.                                                                   *)
Observed(op, resp, wrote, lookups) ==
    [op |-> op, resp |-> resp, wrote |-> wrote, lookups |-> lookups]

(* Tokens a client can present: those it was handed, and what it can make  *)
(* up without the signing key.                                             *)
Held == {i.token : i \in issued}

ForgedTokens ==
    {MalformedToken} \cup {Token(u, NoIat, MaxTime + 1, "forged") : u \in Usernames}

ClientTokens == Held \cup ForgedTokens

(* A token handed out: the token, what it was issued as, and the call that  *)
(* made it (its subject, its expires_delta, the time).                     *)
Issue(token, kind, sub, delta, at) ==
    [token |-> token, kind |-> kind, sub |-> sub, delta |-> delta, at |-> at]

CanHold(issue) == issue \in issued \/ Cardinality(issued) < MaxIssued

-----------------------------------------------------------------------------
(* POST /auth/register *)

(* Column defaults of the users table *)
DefaultConfirmed == FALSE
DefaultRole == "user"

(* UserService.create_user storing an avatar whatever the lookup did *)
NewRow_always_avatar(store, username, email, password, salt, gravatar_ok) ==
    Row(Len(store) + 1, username, email, get_password_hash(password, salt),
        Gravatar(email), DefaultConfirmed, DefaultRole)

(* UserRepository.create_user adding the row as confirmed *)
NewRow_confirmed(store, username, email, password, salt, gravatar_ok) ==
    Row(Len(store) + 1, username, email, get_password_hash(password, salt),
        IF gravatar_ok THEN Gravatar(email) ELSE NoAvatar,
        TRUE, DefaultRole)

(* UserService.create_user and the row UserRepository.create_user adds *)
NewRow(store, username, email, password, salt, gravatar_ok) ==
    Row(Len(store) + 1, username, email, get_password_hash(password, salt),
        IF gravatar_ok THEN Gravatar(email) ELSE NoAvatar,
        DefaultConfirmed, DefaultRole)

(* register_user looking the username up before the email *)
register_user_username_first(username, email, password, salt, gravatar_ok) ==
    LET row == NewRow(users, username, email, password, salt, gravatar_ok)
    IN  IF FindByUsername(users, username) # {}
        THEN /\ last' = Observed("register", Response(409, MsgUsernameExists, FALSE, NoBody), FALSE, 1)
             /\ UNCHANGED <<users, tasks>>
        ELSE IF FindByEmail(users, email) # {}
        THEN /\ last' = Observed("register", Response(409, MsgEmailExists, FALSE, NoBody), FALSE, 2)
             /\ UNCHANGED <<users, tasks>>
        ELSE IF UniqueViolation(users, row)
        THEN /\ last' = Observed("register", Unhandled("IntegrityError"), FALSE, 2)
             /\ UNCHANGED <<users, tasks>>
        ELSE /\ Len(tasks) < MaxTasks
             /\ Len(users) < MaxUsers
             /\ users' = Append(users, row)
             /\ tasks' = Append(tasks, [email |-> row.email, username |-> row.username])
             /\ last' = Observed("register", Response(201, "", FALSE, UserBody(row)), TRUE, 2)

(* register_user without the add_task call *)
register_user_unscheduled(username, email, password, salt, gravatar_ok) ==
    LET row == NewRow(users, username, email, password, salt, gravatar_ok)
    IN  IF FindByEmail(users, email) # {}
        THEN /\ last' = Observed("register", Response(409, MsgEmailExists, FALSE, NoBody), FALSE, 1)
             /\ UNCHANGED <<users, tasks>>
        ELSE IF FindByUsername(users, username) # {}
        THEN /\ last' = Observed("register", Response(409, MsgUsernameExists, FALSE, NoBody), FALSE, 2)
             /\ UNCHANGED <<users, tasks>>
        ELSE IF UniqueViolation(users, row)
        THEN /\ last' = Observed("register", Unhandled("IntegrityError"), FALSE, 2)
             /\ UNCHANGED <<users, tasks>>
        ELSE /\ Len(users) < MaxUsers
             /\ users' = Append(users, row)
             /\ UNCHANGED tasks
             /\ last' = Observed("register", Response(201, "", FALSE, UserBody(row)), TRUE, 2)

register_user(username, email, password, salt, gravatar_ok) ==
    LET row == NewRow(users, username, email, password, salt, gravatar_ok)
    IN  IF FindByEmail(users, email) # {}
        THEN /\ last' = Observed("register", Response(409, MsgEmailExists, FALSE, NoBody), FALSE, 1)
             /\ UNCHANGED <<users, tasks>>
        ELSE IF FindByUsername(users, username) # {}
        THEN /\ last' = Observed("register", Response(409, MsgUsernameExists, FALSE, NoBody), FALSE, 2)
             /\ UNCHANGED <<users, tasks>>
        ELSE IF UniqueViolation(users, row)
        THEN /\ last' = Observed("register", Unhandled("IntegrityError"), FALSE, 2)
             /\ UNCHANGED <<users, tasks>>
        ELSE /\ Len(tasks) < MaxTasks
             /\ Len(users) < MaxUsers
             /\ users' = Append(users, row)
             /\ tasks' = Append(tasks, [email |-> row.email, username |-> row.username])
             /\ last' = Observed("register", Response(201, "", FALSE, UserBody(row)), TRUE, 2)

Register(username, email, password, salt, gravatar_ok) ==
    /\ register_user(username, email, password, salt, gravatar_ok)
    /\ UNCHANGED <<issued, now, cache>>

-----------------------------------------------------------------------------
(* POST /auth/login *)

(* login_user without the check of the confirmed flag *)
login_response_unchecked(username, password) ==
    LET found == FindByUsername(users, username)
    IN  IF found = {} THEN Response(401, MsgBadLogin, TRUE, NoBody)
        ELSE IF ~verify_password(password, users[One(found)].hashed_password)
        THEN Response(401, MsgBadLogin, TRUE, NoBody)
        ELSE Response(200, "", FALSE,
                 TokenBody(create_access_token(users[One(found)].username, NoDelta, now)))

(* login_user telling an unknown username from a wrong password *)
login_response_distinct(username, password) ==
    LET found == FindByUsername(users, username)
    IN  IF found = {} THEN Response(404, "user not found", FALSE, NoBody)
        ELSE IF ~verify_password(password, users[One(found)].hashed_password)
        THEN Response(401, MsgBadLogin, TRUE, NoBody)
        ELSE IF ~users[One(found)].confirmed
        THEN Response(401, MsgNotConfirmed, FALSE, NoBody)
        ELSE Response(200, "", FALSE,
                 TokenBody(create_access_token(users[One(found)].username, NoDelta, now)))

login_response(username, password) ==
    LET found == FindByUsername(users, username)
    IN  IF found = {} THEN Response(401, MsgBadLogin, TRUE, NoBody)
        ELSE IF ~verify_password(password, users[One(found)].hashed_password)
        THEN Response(401, MsgBadLogin, TRUE, NoBody)
        ELSE IF ~users[One(found)].confirmed
        THEN Response(401, MsgNotConfirmed, FALSE, NoBody)
        ELSE Response(200, "", FALSE,
                 TokenBody(create_access_token(users[One(found)].username, NoDelta, now)))

login_user(username, password) ==
    LET resp == login_response(username, password)
        issue == Issue(resp.body.access_token, "access", username, NoDelta, now)
    IN  /\ resp.status = 200 => CanHold(issue)
        /\ issued' = IF resp.status = 200 THEN issued \cup {issue} ELSE issued
        /\ last' = Observed("login", resp, FALSE, 1)

Login(username, password) ==
    /\ login_user(username, password)
    /\ UNCHANGED <<users, tasks, now, cache>>

-----------------------------------------------------------------------------
(* GET /auth/confirmed_email/{token} *)

(* get_email_from_token without the except clause *)
get_email_from_token_uncaught(token, t) ==
    LET d == jwt_decode(token, t)
    IN  IF ~d.ok THEN [ok |-> FALSE, resp |-> Unhandled(d.error)]
        ELSE IF token.sub = NoSub THEN [ok |-> FALSE, resp |-> Unhandled("KeyError")]
        ELSE [ok |-> TRUE, email |-> token.sub]

(* get_email_from_token: the email, or the response of the exception *)
get_email_from_token(token, t) ==
    LET d == jwt_decode(token, t)
    IN  IF ~d.ok THEN [ok |-> FALSE, resp |-> Response(422, MsgBadEmailToken, FALSE, NoBody)]
        ELSE IF token.sub = NoSub THEN [ok |-> FALSE, resp |-> Unhandled("KeyError")]
        ELSE [ok |-> TRUE, email |-> token.sub]

(* UserRepository.confirmed_email that commits without setting the flag *)
repository_confirmed_email_noop(store, email) == store

(* UserRepository.confirmed_email: load the row, set the flag, commit *)
repository_confirmed_email(store, email) ==
    [store EXCEPT ![One(FindByEmail(store, email))].confirmed = TRUE]

(* confirmed_email without the early return for a confirmed identity *)
confirmed_email_rewrites(token) ==
    LET got == get_email_from_token(token, now)
    IN  IF ~got.ok
        THEN /\ last' = Observed("confirm", got.resp, FALSE, 0)
             /\ UNCHANGED users
        ELSE IF FindByEmail(users, got.email) = {}
        THEN /\ last' = Observed("confirm",
                            Response(400, "Verification error", FALSE, NoBody), FALSE, 1)
             /\ UNCHANGED users
        ELSE /\ users' = repository_confirmed_email(users, got.email)
             /\ last' = Observed("confirm",
                            Response(200, "", FALSE, MessageBody(MsgConfirmed)), TRUE, 2)

confirmed_email(token) ==
    LET got == get_email_from_token(token, now)
    IN  IF ~got.ok
        THEN /\ last' = Observed("confirm", got.resp, FALSE, 0)
             /\ UNCHANGED users
        ELSE IF FindByEmail(users, got.email) = {}
        THEN /\ last' = Observed("confirm", Response(400, "Verification error", FALSE, NoBody), FALSE, 1)
             /\ UNCHANGED users
        ELSE IF users[One(FindByEmail(users, got.email))].confirmed
        THEN /\ last' = Observed("confirm", Response(200, "", FALSE, MessageBody(MsgAlreadyConfirmed)),
                            FALSE, 1)
             /\ UNCHANGED users
        ELSE /\ users' = repository_confirmed_email(users, got.email)
             /\ last' = Observed("confirm", Response(200, "", FALSE, MessageBody(MsgConfirmed)), TRUE, 2)

ConfirmEmail(token) ==
    /\ confirmed_email(token)
    /\ UNCHANGED <<tasks, issued, now, cache>>

-----------------------------------------------------------------------------
(* POST /auth/request_email *)

(* request_email without the return for a confirmed identity *)
request_email_resends(email) ==
    LET found == FindByEmail(users, email)
    IN  IF found = {}
        THEN /\ last' = Observed("request_email", Response(200, "", FALSE, MessageBody(MsgNoSuchEmail)), FALSE, 1)
             /\ UNCHANGED tasks
        ELSE /\ Len(tasks) < MaxTasks
             /\ tasks' = Append(tasks, [email |-> users[One(found)].email,
                                        username |-> users[One(found)].username])
             /\ last' = Observed("request_email", Response(200, "", FALSE, MessageBody(MsgCheckEmail)), FALSE, 1)

request_email(email) ==
    LET found == FindByEmail(users, email)
    IN  IF found = {}
        THEN /\ last' = Observed("request_email", Response(200, "", FALSE, MessageBody(MsgNoSuchEmail)), FALSE, 1)
             /\ UNCHANGED tasks
        ELSE IF users[One(found)].confirmed
        THEN /\ last' = Observed("request_email", Response(200, "", FALSE, MessageBody(MsgAlreadyConfirmed)),
                            FALSE, 1)
             /\ UNCHANGED tasks
        ELSE /\ Len(tasks) < MaxTasks
             /\ tasks' = Append(tasks, [email |-> users[One(found)].email,
                                        username |-> users[One(found)].username])
             /\ last' = Observed("request_email", Response(200, "", FALSE, MessageBody(MsgCheckEmail)), FALSE, 1)

RequestEmail(email) ==
    /\ request_email(email)
    /\ UNCHANGED <<users, issued, now, cache>>

-----------------------------------------------------------------------------
(* The background task send_email: it runs after the response of the       *)
(* request that scheduled it.  The token is made first; the transport      *)
(* either delivers the mail or raises ConnectionErrors, which is printed.  *)

RemoveAt(s, i) == [k \in 1..(Len(s) - 1) |-> IF k < i THEN s[k] ELSE s[k + 1]]

send_email(i, delivered) ==
    LET token_verification == create_email_token(tasks[i].email, now)
        issue == Issue(token_verification, "email", tasks[i].email, NoDelta, now)
    IN  /\ delivered => CanHold(issue)
        /\ issued' = IF delivered THEN issued \cup {issue} ELSE issued
        /\ tasks' = RemoveAt(tasks, i)

SendEmail(i, delivered) ==
    /\ i \in 1..Len(tasks)
    /\ send_email(i, delivered)
    /\ UNCHANGED <<users, now, cache, last>>

-----------------------------------------------------------------------------
(* get_current_user, the dependency of GET /users/me *)

(* The identity cache: entries username -> identity snapshot with an        *)
(* expiry.  The resolver is handed none and nothing else writes one.       *)
CacheLive(entries, username, t) ==
    \E c \in entries : c.username = username /\ t < c.expires

(* get_current_user answering 404 for a username without identity *)
current_user_response_404(token) ==
    LET d == jwt_decode(token, now)
    IN  IF ~d.ok THEN credentials_exception
        ELSE IF token.sub = NoSub THEN Unhandled("KeyError")
        ELSE IF FindByUsername(users, token.sub) = {}
        THEN Response(404, "User not found", FALSE, NoBody)
        ELSE Response(200, "", FALSE, UserBody(users[One(FindByUsername(users, token.sub))]))

current_user_response(token) ==
    LET d == jwt_decode(token, now)
    IN  IF ~d.ok THEN credentials_exception
        ELSE IF token.sub = NoSub THEN Unhandled("KeyError")
        ELSE IF FindByUsername(users, token.sub) = {} THEN credentials_exception
        ELSE Response(200, "", FALSE, UserBody(users[One(FindByUsername(users, token.sub))]))

current_user_lookups(token) ==
    IF jwt_decode(token, now).ok /\ token.sub # NoSub THEN 1 ELSE 0

get_current_user(token) ==
    /\ last' = Observed("me", current_user_response(token),
                        FALSE, current_user_lookups(token))
    /\ UNCHANGED cache

Me(token) ==
    /\ get_current_user(token)
    /\ UNCHANGED <<users, tasks, issued, now>>

-----------------------------------------------------------------------------
(* register_user, one await point at a time.  regs[p] is request p: where  *)
(* it stands, its body, its response once it has one, and what it did      *)
(* (taken: the email had an identity when the request arrived; created: it *)
(* added a row; scheduled: it added the send_email task).                  *)

Reg(pc, username, email, password, resp, taken, created, scheduled) ==
    [pc |-> pc, username |-> username, email |-> email, password |-> password,
     resp |-> resp, taken |-> taken, created |-> created, scheduled |-> scheduled]

IdleReg == Reg("idle", "", "", "", NoResponse, FALSE, FALSE, FALSE)

Finished(p) == regs[p].pc = "idle" /\ regs[p].resp # NoResponse

RegBegin(p, username, email, password) ==
    /\ regs[p].pc = "idle"
    /\ regs' = [regs EXCEPT ![p] = Reg("check_email", username, email, password,
                                       NoResponse, FindByEmail(users, email) # {},
                                       FALSE, FALSE)]
    /\ UNCHANGED <<users, tasks>>

(* register_user without the lookup by email *)
RegCheckEmail_skipped(p) ==
    /\ regs[p].pc = "check_email"
    /\ regs' = [regs EXCEPT ![p].pc = "check_username"]
    /\ UNCHANGED <<users, tasks>>

RegCheckEmail(p) ==
    /\ regs[p].pc = "check_email"
    /\ regs' = IF FindByEmail(users, regs[p].email) # {}
               THEN [regs EXCEPT ![p].pc = "idle",
                                 ![p].resp = Response(409, MsgEmailExists, FALSE, NoBody)]
               ELSE [regs EXCEPT ![p].pc = "check_username"]
    /\ UNCHANGED <<users, tasks>>

RegCheckUsername(p) ==
    /\ regs[p].pc = "check_username"
    /\ regs' = IF FindByUsername(users, regs[p].username) # {}
               THEN [regs EXCEPT ![p].pc = "idle",
                                 ![p].resp = Response(409, MsgUsernameExists, FALSE, NoBody)]
               ELSE [regs EXCEPT ![p].pc = "create"]
    /\ UNCHANGED <<users, tasks>>

RegCreate(p, salt, gravatar_ok) ==
    LET row == NewRow(users, regs[p].username, regs[p].email, regs[p].password,
                      salt, gravatar_ok)
    IN  /\ regs[p].pc = "create"
        /\ IF UniqueViolation(users, row)
           THEN /\ regs' = [regs EXCEPT ![p].pc = "idle",
                                        ![p].resp = Unhandled("IntegrityError")]
                /\ UNCHANGED <<users, tasks>>
           ELSE /\ Len(tasks) < MaxTasks
                /\ Len(users) < MaxUsers
                /\ users' = Append(users, row)
                /\ tasks' = Append(tasks, [email |-> row.email, username |-> row.username])
                /\ regs' = [regs EXCEPT ![p].pc = "idle",
                                        ![p].resp = Response(201, "", FALSE, UserBody(row)),
                                        ![p].created = TRUE,
                                        ![p].scheduled = TRUE]

-----------------------------------------------------------------------------
(* One client going through registration to its first authenticated        *)
(* request: script is how far it got, what it registered with, and the     *)
(* responses it received so far.                                           *)

Script(step, username, email, password, trace) ==
    [step |-> step, username |-> username, email |-> email,
     password |-> password, trace |-> trace]

NoScript == Script(0, "", "", "", <<>>)

Received(resp) == [script EXCEPT !.step = @ + 1, !.trace = Append(@, resp)]

ScriptRegister(username, email, password, salt, gravatar_ok) ==
    /\ script.step = 0
    /\ FindByUsername(users, username) = {}
    /\ FindByEmail(users, email) = {}
    /\ Register(username, email, password, salt, gravatar_ok)
    /\ script' = Script(1, username, email, password, <<last'.resp>>)

ScriptLoginUnconfirmed ==
    /\ script.step = 1
    /\ Login(script.username, script.password)
    /\ script' = Received(last'.resp)

ScriptConfirm(token) ==
    /\ script.step = 2
    /\ \E i \in issued : i.kind = "email" /\ i.sub = script.email /\ i.token = token
    /\ ConfirmEmail(token)
    /\ script' = Received(last'.resp)

ScriptLogin ==
    /\ script.step = 3
    /\ Login(script.username, script.password)
    /\ script' = Received(last'.resp)

ScriptMe ==
    /\ script.step = 4
    /\ script.trace[4].body.kind = "token"
    /\ Me(script.trace[4].body.access_token)
    /\ script' = Received(last'.resp)

-----------------------------------------------------------------------------
(* Contacts: the contacts table, one row per position; id = position.  The *)
(* position of a deleted row holds NoContact, so an id is never handed out *)
(* twice.                                                                  *)

NoExtra == "<null>"

ContactBase(name, surname, birthday, email, phone, extra_info) ==
    [name |-> name, surname |-> surname, birthday |-> birthday,
     email |-> email, phone |-> phone, extra_info |-> extra_info]

Bodies ==
    {ContactBase("John", "Doe", "1990-01-01", "john.doe@example.com",
                 "+380123456789", "Friend from school"),
     ContactBase("Johnny", "Doe", "1991-01-01", "johnny.doe@example.com",
                 "+380987654321", "Updated contact info"),
     ContactBase("Ghost", "User", "2000-01-01", "ghost@example.com",
                 "+380000000000", NoExtra)}

ContactIds == (1..MaxContacts) \cup {999}

Contact(id, user_id, body) ==
    [id |-> id, user_id |-> user_id, name |-> body.name, surname |-> body.surname,
     birthday |-> body.birthday, email |-> body.email, phone |-> body.phone,
     extra_info |-> body.extra_info]

NoContact == Contact(0, 0, ContactBase("", "", "", "", "", ""))

ContactBody(row) == [kind |-> "contact", contact |-> row]

MsgContactNotFound == "Contact not found"
MsgContactExists == "duplicate contact"

(* A SELECT by id alone, without the owner *)
get_contact_by_id_any_owner(store, contact_id, user) ==
    {i \in 1..Len(store) : store[i].id = contact_id}

(* The rows of a caller: SELECT ... filter_by(id=contact_id, user=user) *)
get_contact_by_id(store, contact_id, user) ==
    {i \in 1..Len(store) : store[i].id = contact_id /\ store[i].user_id = user.id}

(* The constraint unique_contact_user: one contact of a name per owner *)
ContactUniqueViolation(store, row) ==
    \E i \in 1..Len(store) :
        /\ store[i].id # 0
        /\ store[i].id # row.id
        /\ store[i].user_id = row.user_id
        /\ store[i].name = row.name

(* What a contacts request was and what it did: as Observed, with the id   *)
(* of the identity get_current_user resolved (0 when it raised) and the    *)
(* contact id of the request (for a create, the id of the new row).        *)
ObservedContact(op, resp, wrote, lookups, user_id, contact_id) ==
    [op |-> op, resp |-> resp, wrote |-> wrote, lookups |-> lookups,
     user_id |-> user_id, contact_id |-> contact_id]

(* The same for a request whose body the repository stored *)
ObservedWrite(op, resp, lookups, user_id, contact_id, body) ==
    [op |-> op, resp |-> resp, wrote |-> TRUE, lookups |-> lookups,
     user_id |-> user_id, contact_id |-> contact_id, written |-> body]

Caller(token) == current_user_response(token).body.user

Authenticated(token) == current_user_response(token).status = 200

(* What a contacts handler answers when get_current_user raises *)
Rejected(op, token, contact_id) ==
    /\ ~Authenticated(token)
    /\ last' = ObservedContact(op, current_user_response(token), FALSE,
                               current_user_lookups(token), 0, contact_id)
    /\ UNCHANGED contacts

(* GET /contacts/{contact_id} *)
read_contact(token, contact_id) ==
    \/ Rejected("read_contact", token, contact_id)
    \/ /\ Authenticated(token)
       /\ LET user == Caller(token)
              found == get_contact_by_id(contacts, contact_id, user)
          IN  last' = ObservedContact("read_contact",
                          IF found = {}
                          THEN Response(404, MsgContactNotFound, FALSE, NoBody)
                          ELSE Response(200, "", FALSE, ContactBody(contacts[One(found)])),
                          FALSE, 2, user.id, contact_id)
       /\ UNCHANGED contacts

(* What the store answers to the INSERT of a row: "none" when it takes    *)
(* the row, else the name of the constraint in the IntegrityError.  fault  *)
(* is a constraint of the table other than unique_contact_user that the    *)
(* row violates, "none" when there is none.                                *)
StoreFaults == {"none", "contacts_check"}

InsertViolation(store, row, fault) ==
    IF fault # "none" THEN fault
    ELSE IF ContactUniqueViolation(store, row) THEN "unique_contact_user"
    ELSE "none"

MsgIntegrity == "integrity error"

(* _handle_integrity_error answering 400 whatever the constraint *)
handle_integrity_error_always_400(constraint) ==
    Response(400, MsgIntegrity, FALSE, NoBody)

(* _handle_integrity_error: the HTTPException for the violated constraint *)
handle_integrity_error(constraint) ==
    IF constraint = "unique_contact_user"
    THEN Response(409, MsgContactExists, FALSE, NoBody)
    ELSE Response(400, MsgIntegrity, FALSE, NoBody)

(* As ObservedContact, for a create the store rejected, with the violated  *)
(* constraint                                                              *)
ObservedRejection(op, resp, lookups, user_id, constraint) ==
    [op |-> op, resp |-> resp, wrote |-> FALSE, lookups |-> lookups,
     user_id |-> user_id, contact_id |-> 0, violated |-> constraint]

(* POST /contacts.  ContactService.create_contact catches the              *)
(* IntegrityError, rolls the session back (the row is not stored) and      *)
(* raises what _handle_integrity_error makes of it.                        *)
create_contact(token, body, fault) ==
    \/ /\ fault = "none"
       /\ Rejected("create_contact", token, 0)
    \/ /\ Authenticated(token)
       /\ LET user == Caller(token)
              row == Contact(Len(contacts) + 1, user.id, body)
              violated == InsertViolation(contacts, row, fault)
          IN  IF violated # "none"
              THEN /\ last' = ObservedRejection("create_contact",
                                  handle_integrity_error(violated),
                                  1, user.id, violated)
                   /\ UNCHANGED contacts
              ELSE /\ Len(contacts) < MaxContacts
                   /\ contacts' = Append(contacts, row)
                   /\ last' = ObservedWrite("create_contact",
                                  Response(201, "", FALSE, ContactBody(row)),
                                  1, user.id, row.id, body)

(* An update that leaves the stored extra_info as it was *)
Updated_keeps_extra_info(row, body) ==
    [Contact(row.id, row.user_id, body) EXCEPT !.extra_info = row.extra_info]

(* ContactRepository.update_contact on a row it found: the six fields of   *)
(* the body replace the row's                                              *)
Updated(row, body) == Contact(row.id, row.user_id, body)

(* PUT /contacts/{contact_id} *)
update_contact(token, contact_id, body) ==
    \/ Rejected("update_contact", token, contact_id)
    \/ /\ Authenticated(token)
       /\ LET user == Caller(token)
              found == get_contact_by_id(contacts, contact_id, user)
          IN  IF found = {}
              THEN /\ last' = ObservedContact("update_contact",
                                  Response(404, MsgContactNotFound, FALSE, NoBody),
                                  FALSE, 2, user.id, contact_id)
                   /\ UNCHANGED contacts
              ELSE IF ContactUniqueViolation(contacts, Updated(contacts[One(found)], body))
              THEN /\ last' = ObservedContact("update_contact",
                                  Unhandled("IntegrityError"),
                                  FALSE, 2, user.id, contact_id)
                   /\ UNCHANGED contacts
              ELSE /\ contacts' = [contacts EXCEPT ![One(found)] = Updated(@, body)]
                   /\ last' = ObservedWrite("update_contact",
                                  Response(200, "", FALSE,
                                      ContactBody(Updated(contacts[One(found)], body))),
                                  2, user.id, contact_id, body)

(* ContactRepository.remove_contact that finds the row and deletes nothing *)
repository_remove_contact_kept(store, i) == store

(* ContactRepository.remove_contact on a row it found: delete and commit *)
repository_remove_contact(store, i) == [store EXCEPT ![i] = NoContact]

(* DELETE /contacts/{contact_id} *)
remove_contact(token, contact_id) ==
    \/ Rejected("remove_contact", token, contact_id)
    \/ /\ Authenticated(token)
       /\ LET user == Caller(token)
              found == get_contact_by_id(contacts, contact_id, user)
          IN  IF found = {}
              THEN /\ last' = ObservedContact("remove_contact",
                                  Response(404, MsgContactNotFound, FALSE, NoBody),
                                  FALSE, 2, user.id, contact_id)
                   /\ UNCHANGED contacts
              ELSE /\ contacts' = repository_remove_contact(contacts, One(found))
                   /\ last' = ObservedContact("remove_contact",
                                  Response(200, "", FALSE, ContactBody(contacts[One(found)])),
                                  TRUE, 2, user.id, contact_id)

ReadContact(token, contact_id) ==
    /\ read_contact(token, contact_id)
    /\ UNCHANGED <<users, tasks, issued, now, cache, hosted>>

CreateContact(token, body, fault) ==
    /\ create_contact(token, body, fault)
    /\ UNCHANGED <<users, tasks, issued, now, cache, hosted>>

UpdateContact(token, contact_id, body) ==
    /\ update_contact(token, contact_id, body)
    /\ UNCHANGED <<users, tasks, issued, now, cache, hosted>>

RemoveContact(token, contact_id) ==
    /\ remove_contact(token, contact_id)
    /\ UNCHANGED <<users, tasks, issued, now, cache, hosted>>

-----------------------------------------------------------------------------
(* PATCH /users/avatar.  hosted is the image host: per public id           *)
(* RestApp/{username} the file stored there.                               *)

Files == {"a.png", "b.png"}

NoUploads == [u \in Usernames |-> "none"]

(* UploadFileService.upload_file: the URL built for the uploaded file *)
upload_file(file, username) == <<"cloudinary", username, file>>

(* UserRepository.update_avatar_url: load the row, set avatar, commit *)
repository_update_avatar_url(store, email, url) ==
    [store EXCEPT ![One(FindByEmail(store, email))].avatar = url]

(* UserService.update_avatar_url without the role check *)
service_update_avatar_url_ungated(email, url) ==
    LET after == repository_update_avatar_url(users, email, url)
    IN  /\ users' = after
        /\ last' = Observed("update_avatar",
                       Response(200, "", FALSE, UserBody(after[One(FindByEmail(after, email))])),
                       TRUE, 3)

(* UserService.update_avatar_url *)
service_update_avatar_url(email, url) ==
    IF users[One(FindByEmail(users, email))].role # "admin"
    THEN /\ last' = Observed("update_avatar",
                        Response(403, "Only admins can change their avatar", FALSE, NoBody),
                        FALSE, 2)
         /\ UNCHANGED users
    ELSE LET after == repository_update_avatar_url(users, email, url)
         IN  /\ users' = after
             /\ last' = Observed("update_avatar",
                            Response(200, "", FALSE,
                                UserBody(after[One(FindByEmail(after, email))])),
                            TRUE, 3)

update_avatar_user(token, file) ==
    \/ /\ ~Authenticated(token)
       /\ last' = Observed("update_avatar", current_user_response(token), FALSE,
                           current_user_lookups(token))
       /\ UNCHANGED <<users, hosted>>
    \/ /\ Authenticated(token)
       /\ hosted' = [hosted EXCEPT ![Caller(token).username] = file]
       /\ service_update_avatar_url(Caller(token).email,
                                    upload_file(file, Caller(token).username))

UpdateAvatar(token, file) ==
    /\ update_avatar_user(token, file)
    /\ UNCHANGED <<tasks, issued, now, cache, contacts>>

-----------------------------------------------------------------------------
(* UserService.reset_password, a service method no endpoint calls.  The    *)
(* outcome of a direct call is recorded as a response: Returned(body) for  *)
(* a value, Unhandled(exc) for an exception.                               *)

Returned(body) == Response(0, "", FALSE, body)

reset_password(email, new_password, salt) ==
    LET found == FindByEmail(users, email)
    IN  IF found = {}
        THEN /\ last' = Observed("reset_password", Returned(NoBody), FALSE, 1)
             /\ UNCHANGED users
        ELSE /\ last' = Observed("reset_password", Unhandled("AttributeError"), FALSE, 1)
             /\ UNCHANGED users

ResetPassword(email, new_password, salt) ==
    /\ reset_password(email, new_password, salt)
    /\ UNCHANGED <<tasks, issued, now, cache, contacts, hosted>>

-----------------------------------------------------------------------------
(* Hash called directly: get_password_hash on a password, then             *)
(* verify_password of a candidate against the hash it returned.  last      *)
(* holds the call, its arguments and its outcome.                          *)

Long72 == "aaaaaaaaaaaaaaaaaaaaaaaaaaaaaaaaaaaaaaaaaaaaaaaaaaaaaaaaaaaaaaaaaaaaaaaa"
Long73x == "aaaaaaaaaaaaaaaaaaaaaaaaaaaaaaaaaaaaaaaaaaaaaaaaaaaaaaaaaaaaaaaaaaaaaaaax"
Long73y == "aaaaaaaaaaaaaaaaaaaaaaaaaaaaaaaaaaaaaaaaaaaaaaaaaaaaaaaaaaaaaaaaaaaaaaaay"

HashPasswords == Passwords \cup {Long72, Long73x, Long73y}
HashSalts == Salts \cup {"salt2", "salt3"}

HashCall(op, password, strict, hashed, plain, result) ==
    [op |-> op, password |-> password, strict |-> strict, hashed |-> hashed,
     plain |-> plain, result |-> result]

HashPassword(password, salt, strict) ==
    /\ last' = HashCall("get_password_hash", password, strict,
                        hash_outcome(password, salt, strict), "", Returns(FALSE))
    /\ UNCHANGED <<users, tasks, issued, now, cache, contacts, hosted>>

VerifyPassword(plain_password) ==
    /\ last.op \in {"get_password_hash", "verify_password"}
    /\ last.hashed.ok
    /\ last' = HashCall("verify_password", last.password, last.strict, last.hashed,
                        plain_password,
                        verify_outcome(plain_password, last.hashed.value, last.strict))
    /\ UNCHANGED <<users, tasks, issued, now, cache, contacts, hosted>>

-----------------------------------------------------------------------------
Init ==
    /\ users = <<>>
    /\ tasks = <<>>
    /\ issued = {}
    /\ now = 0
    /\ cache = {}
    /\ last = Observed("none", NoResponse, FALSE, 0)
    /\ regs = [p \in Procs |-> IdleReg]
    /\ script = NoScript
    /\ contacts = <<>>
    /\ hosted = NoUploads

Tick ==
    /\ now < MaxTime
    /\ now' = now + 1
    /\ UNCHANGED <<users, tasks, issued, cache, last>>

Next ==
    \/ \E u \in Usernames, e \in Emails, w \in RegPasswords, s \in Salts, g \in {TRUE} :
           Register(u, e, w, s, g) /\ UNCHANGED <<regs, script, contacts, hosted>>
    \/ \E u \in Usernames, w \in Passwords :
           Login(u, w) /\ UNCHANGED <<regs, script, contacts, hosted>>
    \/ \E t \in ClientTokens :
           ConfirmEmail(t) /\ UNCHANGED <<regs, script, contacts, hosted>>
    \/ \E e \in Emails :
           RequestEmail(e) /\ UNCHANGED <<regs, script, contacts, hosted>>
    \/ \E i \in 1..MaxTasks, d \in BOOLEAN :
           SendEmail(i, d) /\ UNCHANGED <<regs, script, contacts, hosted>>
    \/ \E t \in ClientTokens :
           Me(t) /\ UNCHANGED <<regs, script, contacts, hosted>>
    \/ Tick /\ UNCHANGED <<regs, script, contacts, hosted>>

Spec == Init /\ [][Next]_vars

(* The token functions called directly, as the test fixtures call them,    *)
(* on the store the fixtures set up: one confirmed admin identity.         *)
Subjects == Usernames \cup {NoSub, NullSub}
Deltas == {NoDelta, 0, 1, 2}

SeededUsers ==
    <<Row(1, "deadpool", "deadpool@example.com", get_password_hash("12345678", "salt1"),
          <<"url", "https://twitter.com/gravatar">>, TRUE, "admin")>>

InitSeeded ==
    /\ users = SeededUsers
    /\ tasks = <<>>
    /\ issued = {}
    /\ now = 0
    /\ cache = {}
    /\ last = Observed("none", NoResponse, FALSE, 0)
    /\ regs = [p \in Procs |-> IdleReg]
    /\ script = NoScript
    /\ contacts = <<>>
    /\ hosted = NoUploads

IssueAccessToken(sub, expires_delta) ==
    LET issue == Issue(create_access_token(sub, expires_delta, now), "access",
                       sub, expires_delta, now)
    IN  /\ CanHold(issue)
        /\ issued' = issued \cup {issue}
        /\ UNCHANGED <<users, tasks, now, cache, last>>

NextToken ==
    \/ \E sub \in Subjects, d \in Deltas :
           IssueAccessToken(sub, d) /\ UNCHANGED <<regs, script, contacts, hosted>>
    \/ \E t \in ClientTokens :
           Me(t) /\ UNCHANGED <<regs, script, contacts, hosted>>
    \/ Tick /\ UNCHANGED <<regs, script, contacts, hosted>>

SpecToken == InitSeeded /\ [][NextToken]_vars

(* The registration scenario, on an empty store or beside the fixture's    *)
(* identity, with the mail task and the clock running alongside.           *)
InitScript ==
    /\ users \in {<<>>, SeededUsers}
    /\ tasks = <<>>
    /\ issued = {}
    /\ now = 0
    /\ cache = {}
    /\ last = Observed("none", NoResponse, FALSE, 0)
    /\ regs = [p \in Procs |-> IdleReg]
    /\ script = NoScript
    /\ contacts = <<>>
    /\ hosted = NoUploads

NextScript ==
    \/ \E u \in Usernames, e \in Emails, w \in Passwords, s \in Salts, g \in BOOLEAN :
           ScriptRegister(u, e, w, s, g) /\ UNCHANGED <<regs, contacts, hosted>>
    \/ ScriptLoginUnconfirmed /\ UNCHANGED <<regs, contacts, hosted>>
    \/ \E t \in Held :
           ScriptConfirm(t) /\ UNCHANGED <<regs, contacts, hosted>>
    \/ ScriptLogin /\ UNCHANGED <<regs, contacts, hosted>>
    \/ ScriptMe /\ UNCHANGED <<regs, contacts, hosted>>
    \/ \E i \in 1..MaxTasks, d \in BOOLEAN :
           SendEmail(i, d) /\ UNCHANGED <<regs, script, contacts, hosted>>
    \/ Tick /\ UNCHANGED <<regs, script, contacts, hosted>>

SpecScript == InitScript /\ [][NextScript]_vars

(* Two register requests in flight at once *)
NextRace ==
    \/ \E p \in Procs, u \in Usernames, e \in Emails, w \in RegPasswords :
           RegBegin(p, u, e, w) /\ UNCHANGED <<issued, now, cache, last, script, contacts, hosted>>
    \/ \E p \in Procs :
           RegCheckEmail(p) /\ UNCHANGED <<issued, now, cache, last, script, contacts, hosted>>
    \/ \E p \in Procs :
           RegCheckUsername(p) /\ UNCHANGED <<issued, now, cache, last, script, contacts, hosted>>
    \/ \E p \in Procs, s \in Salts, g \in {TRUE} :
           RegCreate(p, s, g) /\ UNCHANGED <<issued, now, cache, last, script, contacts, hosted>>
    \/ \E i \in 1..MaxTasks, d \in BOOLEAN :
           SendEmail(i, d) /\ UNCHANGED <<regs, script, contacts, hosted>>

SpecRace == Init /\ [][NextRace]_vars


(* The contacts endpoints, called by the fixture's admin and by a second,  *)
(* confirmed identity of role user, each with the token login gave it and  *)
(* within that token's lifetime.                                           *)
TwoUsers ==
    Append(SeededUsers,
           Row(2, "wade@example.com", "wade@example.com",
               get_password_hash("hunter2", "salt1"),
               Gravatar("wade@example.com"), TRUE, "user"))

InitTwoUsers ==
    /\ users = TwoUsers
    /\ tasks = <<>>
    /\ issued = {}
    /\ now = 0
    /\ cache = {}
    /\ last = Observed("none", NoResponse, FALSE, 0)
    /\ regs = [p \in Procs |-> IdleReg]
    /\ script = NoScript
    /\ contacts = <<>>
    /\ hosted = NoUploads

ContactTokens == Held \cup {MalformedToken}

NextContacts ==
    \/ \E u \in Usernames, w \in Passwords :
           Login(u, w) /\ UNCHANGED <<regs, script, contacts, hosted>>
    \/ \E t \in ContactTokens, b \in Bodies, f \in StoreFaults :
           CreateContact(t, b, f) /\ UNCHANGED <<regs, script>>
    \/ \E t \in ContactTokens, c \in ContactIds :
           ReadContact(t, c) /\ UNCHANGED <<regs, script>>
    \/ \E t \in ContactTokens, c \in ContactIds, b \in Bodies :
           UpdateContact(t, c, b) /\ UNCHANGED <<regs, script>>
    \/ \E t \in ContactTokens, c \in ContactIds :
           RemoveContact(t, c) /\ UNCHANGED <<regs, script>>

SpecContacts == InitTwoUsers /\ [][NextContacts]_vars

(* The avatar endpoint, called by the same two identities *)
NextAvatar ==
    \/ \E u \in Usernames, w \in Passwords :
           Login(u, w) /\ UNCHANGED <<regs, script, contacts, hosted>>
    \/ \E t \in ClientTokens, f \in Files :
           UpdateAvatar(t, f) /\ UNCHANGED <<regs, script>>
    \/ \E t \in ClientTokens :
           Me(t) /\ UNCHANGED <<regs, script, contacts, hosted>>
    \/ Tick /\ UNCHANGED <<regs, script, contacts, hosted>>

SpecAvatar == InitTwoUsers /\ [][NextAvatar]_vars


(* The confirmation and login endpoints on a store with the fixture's      *)
(* confirmed identity and a registered identity that has not confirmed.    *)
PendingUsers ==
    Append(SeededUsers,
           Row(2, "wade@example.com", "wade@example.com",
               get_password_hash("hunter2", "salt1"),
               Gravatar("wade@example.com"), FALSE, "user"))

LoginNames == Usernames \cup {"nobody"}
RequestEmails == Emails \cup {"nobody@example.com"}

InitPending ==
    /\ users = PendingUsers
    /\ tasks = <<>>
    /\ issued = {}
    /\ now = 0
    /\ cache = {}
    /\ last = Observed("none", NoResponse, FALSE, 0)
    /\ regs = [p \in Procs |-> IdleReg]
    /\ script = NoScript
    /\ contacts = <<>>
    /\ hosted = NoUploads

NextConfirm ==
    \/ \E u \in LoginNames, w \in Passwords :
           Login(u, w) /\ UNCHANGED <<regs, script, contacts, hosted>>
    \/ \E e \in RequestEmails :
           RequestEmail(e) /\ UNCHANGED <<regs, script, contacts, hosted>>
    \/ \E i \in 1..MaxTasks, d \in BOOLEAN :
           SendEmail(i, d) /\ UNCHANGED <<regs, script, contacts, hosted>>
    \/ \E t \in ClientTokens :
           ConfirmEmail(t) /\ UNCHANGED <<regs, script, contacts, hosted>>
    \/ Tick /\ UNCHANGED <<regs, script, contacts, hosted>>

SpecConfirm == InitPending /\ [][NextConfirm]_vars


(* Registration on an empty store, one request at a time, with the avatar  *)
(* lookup and the mail transport free to fail.                             *)
NextRegister ==
    \/ \E u \in Usernames, e \in Emails, w \in RegPasswords, s \in Salts, g \in BOOLEAN :
           Register(u, e, w, s, g) /\ UNCHANGED <<regs, script, contacts, hosted>>
    \/ \E i \in 1..MaxTasks, d \in BOOLEAN :
           SendEmail(i, d) /\ UNCHANGED <<regs, script, contacts, hosted>>
    \/ \E t \in Held :
           ConfirmEmail(t) /\ UNCHANGED <<regs, script, contacts, hosted>>

SpecRegister == Init /\ [][NextRegister]_vars


(* reset_password called on the store with one confirmed and one           *)
(* unconfirmed identity, between logins and confirmations.                 *)
NextReset ==
    \/ \E e \in RequestEmails, w \in Passwords, s \in Salts :
           ResetPassword(e, w, s) /\ UNCHANGED <<regs, script>>
    \/ \E u \in LoginNames, w \in Passwords :
           Login(u, w) /\ UNCHANGED <<regs, script, contacts, hosted>>
    \/ \E e \in RequestEmails :
           RequestEmail(e) /\ UNCHANGED <<regs, script, contacts, hosted>>
    \/ \E i \in 1..MaxTasks, d \in BOOLEAN :
           SendEmail(i, d) /\ UNCHANGED <<regs, script, contacts, hosted>>
    \/ \E t \in Held :
           ConfirmEmail(t) /\ UNCHANGED <<regs, script, contacts, hosted>>
    \/ Tick /\ UNCHANGED <<regs, script, contacts, hosted>>

SpecReset == InitPending /\ [][NextReset]_vars


(* The hasher on its own, on passwords around bcrypt's 72 bytes *)
NextHash ==
    \/ \E w \in HashPasswords, s \in HashSalts, strict \in BOOLEAN :
           HashPassword(w, s, strict) /\ UNCHANGED <<regs, script>>
    \/ \E w \in HashPasswords :
           VerifyPassword(w) /\ UNCHANGED <<regs, script>>

SpecHash == Init /\ [][NextHash]_vars


(* Sessions and confirmations side by side: login, the confirmation mail,  *)
(* the confirmation link and the resolver, each handed any token a client  *)
(* holds.  The store is the pending one, or one where an identity's        *)
(* username is the email address of another.                               *)
CrossedUsers ==
    <<Row(1, "wade@example.com", "deadpool@example.com",
          get_password_hash("12345678", "salt1"),
          Gravatar("deadpool@example.com"), TRUE, "admin"),
      Row(2, "deadpool", "wade@example.com",
          get_password_hash("hunter2", "salt1"),
          Gravatar("wade@example.com"), FALSE, "user")>>

InitSession ==
    /\ users \in {PendingUsers, CrossedUsers}
    /\ tasks = <<>>
    /\ issued = {}
    /\ now = 0
    /\ cache = {}
    /\ last = Observed("none", NoResponse, FALSE, 0)
    /\ regs = [p \in Procs |-> IdleReg]
    /\ script = NoScript
    /\ contacts = <<>>
    /\ hosted = NoUploads

NextSession ==
    \/ \E u \in Usernames, w \in Passwords :
           Login(u, w) /\ UNCHANGED <<regs, script, contacts, hosted>>
    \/ \E e \in Emails :
           RequestEmail(e) /\ UNCHANGED <<regs, script, contacts, hosted>>
    \/ \E i \in 1..MaxTasks, d \in BOOLEAN :
           SendEmail(i, d) /\ UNCHANGED <<regs, script, contacts, hosted>>
    \/ \E t \in Held :
           ConfirmEmail(t) /\ UNCHANGED <<regs, script, contacts, hosted>>
    \/ \E t \in Held :
           Me(t) /\ UNCHANGED <<regs, script, contacts, hosted>>
    \/ Tick /\ UNCHANGED <<regs, script, contacts, hosted>>

SpecSession == InitSession /\ [][NextSession]_vars


-----------------------------------------------------------------------------
(* Properties *)

(* C1: in every reachable state, a login with the username and password of *)
(* an identity whose confirmed flag is false answers 401, returns no token *)
(* and hands out no access token.                                          *)
C1_UnconfirmedLoginFails ==
    [][\A u \in Usernames, w \in Passwords :
          (/\ Login(u, w)
           /\ \E i \in FindByUsername(users, u) :
                 /\ verify_password(w, users[i].hashed_password)
                 /\ ~users[i].confirmed)
          => /\ last'.resp.status = 401
             /\ last'.resp.body.kind = "none"
             /\ issued' = issued]_vars

C1_Witness ==
    /\ last.op = "login"
    /\ last.resp.status = 401
    /\ last.resp.detail = MsgNotConfirmed

(* C2: confirmEmail with a valid token of an existing identity: if the     *)
(* identity is unconfirmed the call sets confirmed and reports the         *)
(* confirmation; on an identity already confirmed (any later call with the *)
(* same token) it answers 200 "already confirmed", writes nothing and      *)
(* leaves the store as it is.                                              *)
C2_ConfirmTwice ==
    [][\A t \in ClientTokens :
          (/\ ConfirmEmail(t)
           /\ get_email_from_token(t, now).ok
           /\ FindByEmail(users, t.sub) # {})
          => LET i == One(FindByEmail(users, t.sub))
             IN  IF ~users[i].confirmed
                 THEN /\ users' = [users EXCEPT ![i].confirmed = TRUE]
                      /\ last'.resp.status = 200
                      /\ last'.resp.body = MessageBody(MsgConfirmed)
                      /\ last'.wrote
                 ELSE /\ users' = users
                      /\ last'.resp.status = 200
                      /\ last'.resp.body = MessageBody(MsgAlreadyConfirmed)
                      /\ ~last'.wrote]_vars

(* The second call has happened, and one confirmation token is all that    *)
(* was ever handed out.                                                    *)
C2_Witness ==
    /\ last.op = "confirm"
    /\ last.resp.body = MessageBody(MsgAlreadyConfirmed)
    /\ ~last.wrote
    /\ Cardinality(issued) = 1
    /\ \A i \in issued : i.kind = "email"

(* C3: a register request that arrives when its email already has an       *)
(* identity never changes the store or schedules an email, whatever its    *)
(* username, and ends with 409.                                            *)
C3_DuplicateEmailConflict ==
    [][\A p \in Procs :
          (regs'[p] # regs[p] /\ regs'[p].taken)
          => /\ users' = users
             /\ tasks' = tasks
             /\ ~regs'[p].created
             /\ ~regs'[p].scheduled
             /\ regs'[p].pc = "idle" => regs'[p].resp.status = 409]_vars

C3_Witness ==
    \E p \in Procs :
        /\ Finished(p)
        /\ regs[p].taken
        /\ regs[p].resp.status = 409
        /\ FindByUsername(users, regs[p].username) = {}

(* C4: a register request that did not create an identity ends with 409,   *)
(* also when it lost a race past the existence checks; no request ends     *)
(* with the store's integrity failure.                                     *)
C4_RaceEndsInConflict ==
    \A p \in Procs :
        Finished(p) =>
            /\ regs[p].resp.status \in {201, 409}
            /\ ~regs[p].created => regs[p].resp.status = 409

(* C5: no two rows of the users table share a username or an email.        *)
C5_UniqueIdentities ==
    \A i, j \in Ids(users) :
        i # j => /\ users[i].username # users[j].username
                 /\ users[i].email # users[j].email

(* Two requests raced past the checks and the store refused the second.    *)
C5_Witness ==
    /\ Len(users) >= 1
    /\ \E p \in Procs :
          /\ Finished(p)
          /\ regs[p].resp = Unhandled("IntegrityError")

(* C6: a resolve of a username with a live cache entry makes no store      *)
(* lookup; a successful resolve of an uncached username leaves a cache     *)
(* entry for it; and a resolve that follows a successful resolve of the    *)
(* same username makes no store lookup.                                    *)
C6_CachedResolve ==
    [][\A t \in ClientTokens :
          Me(t) =>
             /\ CacheLive(cache, t.sub, now) => last'.lookups = 0
             /\ (~CacheLive(cache, t.sub, now) /\ last'.resp.status = 200)
                   => CacheLive(cache', t.sub, now)
             /\ (/\ last.op = "me"
                 /\ last.resp.status = 200
                 /\ last.resp.body.user.username = t.sub)
                   => last'.lookups = 0]_vars

(* C7: the resolver answers the one credentials_exception, and no          *)
(* identity, for a malformed token, a token with a bad signature, an       *)
(* expired token, and a signed unexpired token whose username has no       *)
(* identity.                                                               *)
C7_UniformRejection ==
    [][\A t \in ClientTokens :
          (/\ Me(t)
           /\ \/ t.sig # "secret"
              \/ t.exp < now
              \/ /\ t.sig = "secret"
                 /\ t.exp >= now
                 /\ t.sub \in Usernames
                 /\ FindByUsername(users, t.sub) = {})
          => /\ last'.resp = credentials_exception
             /\ last'.resp.body.kind = "none"]_vars

(* A signed, unexpired token was looked up and had no identity, and an     *)
(* expired token is at hand.                                               *)
C7_Witness ==
    /\ last.op = "me"
    /\ last.resp = credentials_exception
    /\ last.lookups = 1
    /\ \E i \in issued : i.token.exp < now

(* C8: the resolver answers credentials_exception for a signed, unexpired  *)
(* token without a sub claim.                                              *)
C8_MissingSubRejected ==
    [][\A t \in ClientTokens :
          (Me(t) /\ jwt_decode(t, now).ok /\ t.sub = NoSub)
          => last'.resp = credentials_exception]_vars

C10_EndToEnd ==
    LET tr == script.trace
    IN  /\ script.step >= 1 =>
              /\ tr[1].status = 201
              /\ tr[1].body.kind = "user"
              /\ tr[1].body.user.username = script.username
              /\ tr[1].body.user.email = script.email
        /\ script.step >= 2 => tr[2].status = 401 /\ tr[2].body.kind = "none"
        /\ script.step >= 3 =>
              tr[3].status = 200 /\ tr[3].body = MessageBody(MsgConfirmed)
        /\ script.step >= 4 =>
              /\ tr[4].status = 200
              /\ tr[4].body.kind = "token"
              /\ tr[4].body.token_type = "bearer"
              /\ tr[4].body.access_token.sub = script.username
        /\ script.step >= 5 =>
              \/ /\ tr[5].status = 200
                 /\ tr[5].body.kind = "user"
                 /\ tr[5].body.user.username = script.username
              \/ /\ tr[5] = credentials_exception
                 /\ tr[4].body.access_token.exp < now

C10_Witness ==
    /\ script.step = 5
    /\ script.trace[5].status = 200
    /\ script.trace[5].body.user.username = script.username

(* C11: a delete of a contact the caller owns answers 200 with that        *)
(* contact and takes it, and nothing else, out of the store; a delete of   *)
(* the same id by the same caller right after it answers 404 "Contact not  *)
(* found" and leaves the store as it is.                                   *)
C11_DeleteTwice ==
    [][(/\ last'.op = "remove_contact"
        /\ last'.user_id # 0
        /\ (last' # last \/ contacts' # contacts))
       => LET c == last'.contact_id
              u == last'.user_id
              owned == {i \in 1..Len(contacts) :
                           contacts[i].id = c /\ contacts[i].user_id = u}
          IN  /\ owned # {}
                 => /\ last'.resp.status = 200
                    /\ last'.resp.body = ContactBody(contacts[One(owned)])
                    /\ \A j \in 1..Len(contacts') : contacts'[j].id # c
                    /\ \A j \in 1..Len(contacts) :
                           j \notin owned => contacts'[j] = contacts[j]
              /\ (/\ last.op = "remove_contact"
                  /\ last.resp.status = 200
                  /\ last.contact_id = c
                  /\ last.user_id = u)
                 => /\ last'.resp.status = 404
                    /\ last'.resp.detail = MsgContactNotFound
                    /\ last'.resp.body.kind = "none"
                    /\ contacts' = contacts]_vars

(* The one contact ever created was deleted by its owner, and the owner's  *)
(* delete of the same id was answered 404.                                 *)
C11_Witness ==
    /\ contacts = <<NoContact>>
    /\ Cardinality(issued) = 1
    /\ last.op = "remove_contact"
    /\ last.contact_id = 1
    /\ last.user_id # 0
    /\ last.resp.status = 404

(* C12: get, update and delete of an id that no contact of the caller has  *)
(* (no contact at all, or a contact of another identity) answer 404 and    *)
(* leave the store as it is; and no get, update or delete returns or       *)
(* changes a contact of an identity other than the caller.                 *)
C12_OwnerScoped ==
    [][(/\ last'.op \in {"read_contact", "update_contact", "remove_contact"}
        /\ last'.user_id # 0
        /\ (last' # last \/ contacts' # contacts))
       => LET c == last'.contact_id
              u == last'.user_id
          IN  /\ (\A i \in 1..Len(contacts) :
                     contacts[i].id = c => contacts[i].user_id # u)
                 => /\ last'.resp.status = 404
                    /\ last'.resp.detail = MsgContactNotFound
                    /\ last'.resp.body.kind = "none"
                    /\ contacts' = contacts
              /\ \A i \in 1..Len(contacts) :
                    contacts[i].user_id # u => contacts'[i] = contacts[i]
              /\ last'.resp.body.kind = "contact"
                 => last'.resp.body.contact.user_id = u]_vars

(* The contact of one identity is in the store and the other identity's    *)
(* get, update or delete of its id was answered 404.                       *)
C12_Witness ==
    /\ Len(contacts) = 1
    /\ contacts[1].id = 1
    /\ last.op \in {"read_contact", "update_contact", "remove_contact"}
    /\ last.contact_id = 1
    /\ last.user_id # 0
    /\ last.user_id # contacts[1].user_id
    /\ last.resp.status = 404

(* C13 as stated: confirmEmail answers 422, and changes no identity, when  *)
(* the token fails verification and when it verifies but its subject is    *)
(* the email of no identity.                                               *)
C13_ConfirmFails422 ==
    [][\A t \in ClientTokens :
          (/\ ConfirmEmail(t)
           /\ \/ ~jwt_decode(t, now).ok
              \/ /\ jwt_decode(t, now).ok
                 /\ t.sub # NoSub
                 /\ FindByEmail(users, t.sub) = {})
          => /\ last'.resp.status = 422
             /\ users' = users]_vars

(* C13, amended: confirmEmail changes no identity in either case; it       *)
(* answers 422 when the token fails verification, and 400 "Verification    *)
(* error" when the token verifies but its subject is the email of no       *)
(* identity.                                                               *)
C13_ConfirmFails ==
    [][\A t \in ClientTokens :
          /\ (ConfirmEmail(t) /\ ~jwt_decode(t, now).ok)
             => /\ last'.resp = Response(422, MsgBadEmailToken, FALSE, NoBody)
                /\ users' = users
          /\ (/\ ConfirmEmail(t)
              /\ jwt_decode(t, now).ok
              /\ t.sub # NoSub
              /\ FindByEmail(users, t.sub) = {})
             => /\ last'.resp = Response(400, "Verification error", FALSE, NoBody)
                /\ users' = users]_vars

(* A token that verified named no identity, and a token past its expiry is *)
(* at hand.                                                                *)
C13_Witness ==
    /\ last.op = "confirm"
    /\ last.resp.status = 400
    /\ last.lookups = 1
    /\ \E i \in issued : i.token.exp < now

(* C14: requestConfirmationEmail answers 200 and changes no identity and   *)
(* hands out no token itself; it schedules one confirmation email, to the  *)
(* identity of that email, exactly when that identity exists and is not    *)
(* confirmed, and schedules nothing otherwise.                             *)
C14_RequestEmail ==
    [][\A e \in RequestEmails :
          RequestEmail(e)
          => LET found == FindByEmail(users, e)
                 pending == found # {} /\ ~users[One(found)].confirmed
             IN  /\ last'.resp.status = 200
                 /\ users' = users
                 /\ issued' = issued
                 /\ pending => tasks' = Append(tasks, [email |-> e,
                                   username |-> users[One(found)].username])
                 /\ ~pending => tasks' = tasks]_vars

(* A request for a confirmed identity's email was answered and nothing is  *)
(* scheduled; the unconfirmed identity is still there.                     *)
C14_Witness ==
    /\ last.op = "request_email"
    /\ last.resp.body = MessageBody(MsgAlreadyConfirmed)
    /\ tasks = <<>>
    /\ \E i \in Ids(users) : ~users[i].confirmed

(* C15: login answers the same 401, with the same message and the same     *)
(* WWW-Authenticate header, and hands out no token, when the username has  *)
(* no identity and when it has one whose password does not verify.         *)
C15_LoginUniform ==
    [][\A u \in LoginNames, w \in Passwords :
          (/\ Login(u, w)
           /\ \/ FindByUsername(users, u) = {}
              \/ \E i \in FindByUsername(users, u) :
                    ~verify_password(w, users[i].hashed_password))
          => /\ last'.resp = Response(401, MsgBadLogin, TRUE, NoBody)
             /\ issued' = issued]_vars

C15_Witness ==
    /\ last.op = "login"
    /\ last.resp = Response(401, MsgBadLogin, TRUE, NoBody)
    /\ \E i \in issued : i.kind = "access"

(* C16: a register request whose email has an identity is answered with    *)
(* the email conflict, also when its username has one too; the username    *)
(* conflict is answered only when the email has no identity.               *)
C16_EmailCheckedFirst ==
    [][\A u \in Usernames, e \in Emails, w \in RegPasswords, s \in Salts, g \in BOOLEAN :
          Register(u, e, w, s, g)
          => /\ FindByEmail(users, e) # {}
                => last'.resp = Response(409, MsgEmailExists, FALSE, NoBody)
             /\ last'.resp.detail = MsgUsernameExists
                => /\ FindByEmail(users, e) = {}
                   /\ FindByUsername(users, u) # {}
                   /\ last'.resp.status = 409]_vars

(* The email and the username of the refused request belong to two         *)
(* different identities.                                                   *)
C16_Witness ==
    /\ last.op = "register"
    /\ last.resp = Response(409, MsgEmailExists, FALSE, NoBody)
    /\ \E i, j \in Ids(users) :
          /\ i # j
          /\ users[i].email = "deadpool@example.com"
          /\ users[j].username = "deadpool"

(* C17: a register answered 201 schedules one send_email, for the new      *)
(* identity, and any other register schedules none; a run of send_email    *)
(* comes after the identity is in the store, leaves the response of the    *)
(* request and every identity as they are whether or not the mail went     *)
(* out, and takes the task off the queue either way.                       *)
C17_DispatchOnce ==
    [][/\ \A u \in Usernames, e \in Emails, w \in RegPasswords, s \in Salts, g \in BOOLEAN :
             Register(u, e, w, s, g)
             => IF last'.resp.status = 201
                THEN tasks' = Append(tasks, [email |-> e, username |-> u])
                ELSE tasks' = tasks
       /\ \A i \in 1..MaxTasks, d \in BOOLEAN :
             SendEmail(i, d)
             => /\ FindByEmail(users, tasks[i].email) # {}
                /\ last' = last
                /\ users' = users
                /\ tasks' = RemoveAt(tasks, i)
                /\ ~d => issued' = issued]_vars

(* The mail of the registered identity failed: no token went out, nothing  *)
(* is queued, and the caller still holds the 201.                          *)
C17_Witness ==
    /\ last.op = "register"
    /\ last.resp.status = 201
    /\ tasks = <<>>
    /\ issued = {}
    /\ Len(users) = 1

(* C18: a register request with a free email and username whose avatar     *)
(* lookup fails is answered 201 with the new identity, which is in the     *)
(* store with no avatar.                                                   *)
C18_AvatarBestEffort ==
    [][\A u \in Usernames, e \in Emails, w \in RegPasswords, s \in Salts :
          (/\ Register(u, e, w, s, FALSE)
           /\ FindByEmail(users, e) = {}
           /\ FindByUsername(users, u) = {})
          => /\ last'.resp.status = 201
             /\ Len(users') = Len(users) + 1
             /\ users'[Len(users')].username = u
             /\ users'[Len(users')].email = e
             /\ users'[Len(users')].avatar = NoAvatar
             /\ last'.resp.body = UserBody(users'[Len(users')])]_vars

C18_Witness ==
    /\ last.op = "register"
    /\ last.resp.status = 201
    /\ last.resp.body.user.avatar = NoAvatar
    /\ users[Len(users)] = last.resp.body.user

C20_AvatarAdminOnly ==
    [][\A t \in ClientTokens, f \in Files :
          (UpdateAvatar(t, f) /\ Authenticated(t))
          => LET me == One(FindByUsername(users, Caller(t).username))
             IN  IF users[me].role # "admin"
                 THEN /\ last'.resp.status = 403
                      /\ last'.resp.body.kind = "none"
                      /\ \A i \in Ids(users) : users'[i].avatar = users[i].avatar
                 ELSE /\ last'.resp.status = 200
                      /\ users' = [users EXCEPT ![me].avatar =
                                       upload_file(f, users[me].username)]
                      /\ last'.resp.body = UserBody(users'[me])]_vars

(* The admin has a new avatar and the other identity's update was refused. *)
C20_Witness ==
    /\ last.op = "update_avatar"
    /\ last.resp.status = 403
    /\ users[1].role = "admin"
    /\ users[1].avatar = upload_file("a.png", "deadpool")

(* C21: reset_password for an email with an identity replaces that         *)
(* identity's password hash by the hash of the new password, changes       *)
(* nothing else in the store and returns the updated identity; for an      *)
(* email without identity it returns None and changes nothing.             *)
C21_ResetPassword ==
    [][\A e \in RequestEmails, w \in Passwords, s \in Salts :
          ResetPassword(e, w, s)
          => LET found == FindByEmail(users, e)
             IN  IF found = {}
                 THEN /\ users' = users
                      /\ last'.resp = Returned(NoBody)
                 ELSE /\ users' = [users EXCEPT ![One(found)].hashed_password =
                                       get_password_hash(w, s)]
                      /\ last'.resp = Returned(UserBody(users'[One(found)]))]_vars

(* C22: get_password_hash returns a hash for every password, and           *)
(* verify_password of a candidate against the hash of a password is true   *)
(* when the candidate is that password and false when it is any other.     *)
C22_HashVerify ==
    /\ last.op = "get_password_hash" => last.hashed.ok
    /\ last.op = "verify_password"
          => /\ last.result.ok
             /\ last.result.value = (last.plain = last.password)

(* C23: a contact read by its owner by id carries the values of the most   *)
(* recent successful write to that id.  A successful create stores the     *)
(* created values under a new id for the caller; a successful update       *)
(* stores exactly the six fields of its body and keeps id and owner; a     *)
(* read that answers 200 returns the stored row of that id and owner; and  *)
(* the store changes in no step other than a successful write.             *)
C23_ReadAfterWrite ==
    [][/\ (last'.op = "create_contact" /\ last'.wrote /\ last' # last)
            => LET c == last'.contact_id
                   b == last'.written
               IN  /\ \A j \in 1..Len(contacts) : contacts[j].id # c
                   /\ Len(contacts') = Len(contacts) + 1
                   /\ \A j \in 1..Len(contacts) : contacts'[j] = contacts[j]
                   /\ contacts'[Len(contacts')] =
                         [id |-> c, user_id |-> last'.user_id, name |-> b.name,
                          surname |-> b.surname, birthday |-> b.birthday,
                          email |-> b.email, phone |-> b.phone,
                          extra_info |-> b.extra_info]
       /\ (last'.op = "update_contact" /\ last'.wrote)
            => LET c == last'.contact_id
                   b == last'.written
               IN  /\ Len(contacts') = Len(contacts)
                   /\ \E i \in 1..Len(contacts) :
                         /\ contacts[i].id = c
                         /\ contacts[i].user_id = last'.user_id
                         /\ contacts'[i] =
                               [id |-> c, user_id |-> contacts[i].user_id,
                                name |-> b.name, surname |-> b.surname,
                                birthday |-> b.birthday, email |-> b.email,
                                phone |-> b.phone, extra_info |-> b.extra_info]
                         /\ \A j \in 1..Len(contacts) :
                               j # i => contacts'[j] = contacts[j]
       /\ (last'.op = "read_contact" /\ last'.resp.status = 200)
            => /\ contacts' = contacts
               /\ last'.resp.body.kind = "contact"
               /\ last'.resp.body.contact.id = last'.contact_id
               /\ last'.resp.body.contact.user_id = last'.user_id
               /\ \E i \in 1..Len(contacts) :
                     contacts[i] = last'.resp.body.contact
       /\ contacts' # contacts
            => /\ last'.wrote
               /\ last'.op \in {"create_contact", "update_contact", "remove_contact"}]_vars

(* An owner reads the contact of id 1 as the update body left it *)
C23_Witness ==
    /\ last.op = "read_contact"
    /\ last.resp.status = 200
    /\ last.contact_id = 1
    /\ last.resp.body.contact.name = "Johnny"
    /\ last.resp.body.contact.extra_info = "Updated contact info"
    /\ last.resp.body.contact.user_id = last.user_id

(* C24: an access token issued at time at carries exp = at + expires_delta *)
(* for every supplied expires_delta >= 0, exp = at + the configured        *)
(* lifetime only when expires_delta is omitted, and the subject it was     *)
(* given.                                                                  *)
C24_ExpFromDelta ==
    \A i \in issued :
        i.kind = "access" =>
            /\ i.token.sub = i.sub
            /\ i.delta # NoDelta => i.token.exp = i.at + i.delta
            /\ i.delta = NoDelta => i.token.exp = i.at + JWT_EXPIRATION_SECONDS

(* C25: the confirmed flag of an identity never goes from true to false,   *)
(* and every identity get_current_user returns for an access token that    *)
(* login issued is confirmed at that moment.                               *)
C25_ConfirmedStays ==
    [][/\ \A i \in 1..Len(users) :
            users[i].confirmed
            => /\ i <= Len(users')
               /\ users'[i].id = users[i].id
               /\ users'[i].confirmed
       /\ \A t \in Held :
            (/\ Me(t)
             /\ last'.resp.status = 200
             /\ \E i \in issued : i.token = t /\ i.kind = "access")
            => last'.resp.body.user.confirmed]_vars

(* The identity that registered unconfirmed is resolved, confirmed, from   *)
(* a token of its login                                                    *)
C25_Witness ==
    /\ last.op = "me"
    /\ last.resp.status = 200
    /\ last.resp.body.user.id = 2
    /\ last.resp.body.user.username = "wade@example.com"
    /\ last.resp.body.user.confirmed
    /\ \E i \in issued : i.kind = "access" /\ i.sub = "wade@example.com"

(* C26: token kinds are not interchangeable.  The confirmed flag of an     *)
(* identity is set only by a token issued as a confirmation token for that *)
(* identity's email, never by an access token; get_current_user            *)
(* authenticates only with a token issued as an access token, never with a *)
(* confirmation token.                                                     *)
C26_KindsApart ==
    [][/\ \A t \in Held :
            (ConfirmEmail(t) /\ users' # users)
            => \E i \in issued :
                  /\ i.token = t
                  /\ i.kind = "email"
                  /\ \A k \in 1..Len(users) :
                        users'[k].confirmed # users[k].confirmed
                        => users[k].email = i.sub
       /\ \A t \in Held :
            (Me(t) /\ last'.resp.status = 200)
            => \E i \in issued : i.token = t /\ i.kind = "access"]_vars

(* C27: an avatar update that fails with 403, the caller not being ADMIN,  *)
(* uploads no file to the image host and overwrites none there.            *)
C27_CheckBeforeUpload ==
    [][(last'.op = "update_avatar" /\ last'.resp.status = 403)
       => hosted' = hosted]_vars

(* C28: when the store rejects the INSERT of a contact with an integrity   *)
(* violation, create_contact adds no contact and answers 409 if the        *)
(* violated constraint is unique_contact_user and 400 for any other; the   *)
(* IntegrityError itself never reaches the caller.                         *)
C28_IntegrityTranslated ==
    [][(/\ last'.op = "create_contact"
        /\ last'.user_id # 0
        /\ ~last'.wrote)
       => /\ contacts' = contacts
          /\ last'.violated # "none"
          /\ last'.resp.status =
                (IF last'.violated = "unique_contact_user" THEN 409 ELSE 400)
          /\ last'.resp.body.kind = "none"
          /\ last'.resp # Unhandled("IntegrityError")]_vars

(* A second contact of the same name for the same owner was refused, the   *)
(* first one still being the only row.                                     *)
C28_Witness ==
    /\ last.op = "create_contact"
    /\ last.resp.status = 409
    /\ last.violated = "unique_contact_user"
    /\ Len(contacts) = 1
    /\ contacts[1].user_id = last.user_id

=============================================================================
